---- MODULE Spec2Model ----
(***************************************************************************)
(* Model of fix_framer_site.py: the repair tool of a mirrored Framer site. *)
(*                                                                         *)
(* A directory tree is a record [files, dirs]: files maps the path of each *)
(* regular file (a sequence of segments below root) to its text, dirs is   *)
(* the set of directories below root.  A text is the set of references the *)
(* regular expressions of the script can see in it; every reference is a   *)
(* record [k, id, name] (k: the syntactic shape of the reference).         *)
(***************************************************************************)
EXTENDS Naturals, Sequences, FiniteSets, TLC

VARIABLES fs, root_ok, pc, dry_run, site_ids, queue,
          missing_mjs, missing_indexes, missing_assets, k, rep, hist, run

vars == <<fs, root_ok, pc, dry_run, site_ids, queue,
          missing_mjs, missing_indexes, missing_assets, k, rep, hist, run>>

(***************************************************************************)
(* Bounds of the model.                                                    *)
(***************************************************************************)
\* number of references/files added to a base tree to form the initial tree
MaxExtra == 1
\* number of successive invocations of main on the same root
MaxRuns == 2

(***************************************************************************)
(* Strings.  TLA+ has no string operations, so the operations the script   *)
(* applies to strings are tables over the strings of the model.            *)
(***************************************************************************)
\* every string of the model, in the order Python's sorted() gives (code points)
Order ==
  << "../../evil.mjs", "abc123", "assets", "data.bin", "dep.mjs", "evil.mjs",
     "images", "index.html", "logo123.png", "page.html", "page.mjs",
     "searchIndex-en.json", "sites", "style.css", "util.mjs", "xyz789" >>

Rank(s) == CHOOSE i \in 1..Len(Order) : Order[i] = s

\* str < str
Less(a, b) == Rank(a) < Rank(b)

\* the strings of S in ascending order
RECURSIVE Ascending(_)
Ascending(S) ==
  IF S = {} THEN <<>>
  ELSE LET m == CHOOSE x \in S : \A y \in S : ~Less(y, x)
       IN  <<m>> \o Ascending(S \ {m})

\* the strings of S in descending order
RECURSIVE Descending(_)
Descending(S) ==
  IF S = {} THEN <<>>
  ELSE LET m == CHOOSE x \in S : \A y \in S : ~Less(x, y)
       IN  <<m>> \o Descending(S \ {m})

\* a sort that orders the wrong way round
sorted_reversed(S) == Descending(S)

\* sorted(S) for a set of strings
sorted(S) == Ascending(S)

Range(s) == { s[i] : i \in 1..Len(s) }

\* Path.suffix.lower() of a file name
suffix_lower(name) ==
  CASE name \in {"index.html", "page.html"} -> ".html"
    [] name \in {"../../evil.mjs", "dep.mjs", "evil.mjs", "page.mjs", "util.mjs"}
         -> ".mjs"
    [] name = "searchIndex-en.json" -> ".json"
    [] name = "style.css" -> ".css"
    [] name = "logo123.png" -> ".png"
    [] name = "data.bin" -> ".bin"
    [] OTHER -> ""

\* the segments pathlib splits a relative reference into
Parts(rel) ==
  IF rel = "../../evil.mjs" THEN <<"..", "..", "evil.mjs">> ELSE <<rel>>

\* site_dir.glob("*.mjs") and the patterns' "\.mjs" test on a name
EndsWithMjs(name) == suffix_lower(name) = ".mjs"

\* searchIndex-[^"'>]+\.json
IsIndexName(name) == name = "searchIndex-en.json"

\* [A-Za-z0-9_\-\.]+\.(?:png|jpe?g|webp|gif|mp4|svg|woff2?)
IsAssetName(name) ==
  suffix_lower(name) \in
    {".png", ".jpg", ".jpeg", ".webp", ".gif", ".mp4", ".svg", ".woff", ".woff2"}

(***************************************************************************)
(* References.                                                             *)
(*   site_url     https://framerusercontent.com/sites/<id>/<name>          *)
(*   local_index  sites/<id>/<name>            (no origin in front)        *)
(*   dyn_import   import("./<name>")                                       *)
(*   from_import  from "./<name>"                                          *)
(*   bare_import  import "./<name>"                                        *)
(*   asset_url    https://framerusercontent.com/assets/<name>              *)
(***************************************************************************)
Tok(kind, id, name) == [k |-> kind, id |-> id, name |-> name]

(***************************************************************************)
(* The file system.                                                        *)
(***************************************************************************)
EmptyFs == [files |-> <<>>, dirs |-> {}]

Parent(p) == SubSeq(p, 1, Len(p) - 1)

IsFile(f, p) == p \in DOMAIN f.files
IsDir(f, p) == p = <<>> \/ p \in f.dirs

\* Path resolution as the kernel does it: segment by segment from dir `cur`,
\* ".." steps to the parent, every directory passed through must exist.
\* The result is [ok, path]; ok is FALSE for ENOENT/ENOTDIR on the way.
RECURSIVE Walk(_, _, _)
Walk(f, cur, segs) ==
  IF segs = <<>> THEN [ok |-> TRUE, path |-> cur]
  ELSE IF ~IsDir(f, cur) THEN [ok |-> FALSE, path |-> cur]
  ELSE IF Head(segs) = ".."
       THEN Walk(f, IF cur = <<>> THEN <<>> ELSE Parent(cur), Tail(segs))
       ELSE Walk(f, Append(cur, Head(segs)), Tail(segs))

\* Path.exists()
exists(f, p) ==
  LET w == Walk(f, <<>>, p) IN w.ok /\ (IsFile(f, w.path) \/ IsDir(f, w.path))

\* Path.is_dir()
is_dir(f, p) ==
  LET w == Walk(f, <<>>, p) IN w.ok /\ IsDir(f, w.path)

\* Path.mkdir(parents=True, exist_ok=True): creates the missing directories of
\* p from the root down; raises when a component is a regular file.
RECURSIVE MkdirFrom(_, _, _)
MkdirFrom(f, cur, segs) ==
  IF segs = <<>> THEN [ok |-> TRUE, fs |-> f]
  ELSE IF Head(segs) = ".."
       THEN MkdirFrom(f, IF cur = <<>> THEN <<>> ELSE Parent(cur), Tail(segs))
       ELSE LET d == Append(cur, Head(segs))
            IN  IF IsFile(f, d) THEN [ok |-> FALSE, fs |-> f]
                ELSE MkdirFrom([f EXCEPT !.dirs = @ \cup {d}], d, Tail(segs))

mkdir(f, p) == MkdirFrom(f, <<>>, p)

\* open(dest, "wb") and write: the file at dest now holds `text`
WriteFile(f, p, text) ==
  [f EXCEPT !.files = (p :> text) @@ @]

\* root.rglob("*") filtered by is_file() and by suffix
ScannedFiles(f, exts) ==
  { p \in DOMAIN f.files : suffix_lower(p[Len(p)]) \in exts }

(***************************************************************************)
(* The detection functions.                                                *)
(***************************************************************************)
FRAMER_CDN == "https://framerusercontent.com"

\* framerusercontent\.com/sites/([A-Za-z0-9_-]+)
pattern_url(t) == IF t.k = "site_url" THEN {t.id} ELSE {}

\* sites/([A-Za-z0-9_-]+)/searchIndex-[^"'>]+\.json  (also found inside a URL)
pattern_local(t) ==
  IF t.k \in {"site_url", "local_index"} /\ IsIndexName(t.name) THEN {t.id} ELSE {}

find_site_ids(f) ==
  UNION { pattern_url(t) \cup pattern_local(t) :
          t \in UNION { f.files[p] :
                        p \in ScannedFiles(f, {".html", ".htm", ".js", ".mjs", ".json"}) } }

\* import\(\s*["']\./([^"']+\.mjs)["']\s*\)
dyn_import(t) ==
  IF t.k = "dyn_import" /\ EndsWithMjs(t.name) THEN {t.name} ELSE {}

\* a pattern that sees only the import without a from clause
static_import_bare(t) ==
  IF t.k = "bare_import" /\ EndsWithMjs(t.name) THEN {t.name} ELSE {}

\* from\s+["']\./([^"']+\.mjs)["']
static_import(t) ==
  IF t.k = "from_import" /\ EndsWithMjs(t.name) THEN {t.name} ELSE {}

SiteDir(site_id) == <<"sites", site_id>>

\* site_dir.glob("*.mjs")
GlobMjs(f, site_dir) ==
  { p \in DOMAIN f.files : Parent(p) = site_dir /\ EndsWithMjs(p[Len(p)]) }

find_missing_mjs_for_site(f, site_id) ==
  LET site_dir == SiteDir(site_id)
      missing == { rel \in UNION { dyn_import(t) \cup static_import(t) :
                                   t \in UNION { f.files[p] : p \in GlobMjs(f, site_dir) } } :
                   ~exists(f, site_dir \o Parts(rel)) }
  IN  IF ~is_dir(f, site_dir) THEN <<>> ELSE sorted(missing)

\* the [WARN] line of find_missing_mjs_for_site
WarnsNoSiteDir(f, site_id) == ~is_dir(f, SiteDir(site_id))

\* https://framerusercontent\.com/assets/(<asset name>)
asset_pattern(t) ==
  IF t.k = "asset_url" /\ IsAssetName(t.name) THEN {t.name} ELSE {}

\* a test that wants the asset in both directories
AssetIsMissingEither(f, name) ==
  LET in_assets == exists(f, <<"assets", name>>)
      in_images == exists(f, <<"images", name>>)
  IN  ~in_assets \/ ~in_images

\* the test of the loop over sorted(asset_names)
AssetIsMissing(f, name) ==
  LET in_assets == exists(f, <<"assets", name>>)
      in_images == exists(f, <<"images", name>>)
  IN  ~in_assets /\ ~in_images

find_missing_assets(f) ==
  LET asset_names ==
        UNION { asset_pattern(t) :
                t \in UNION { f.files[p] :
                              p \in ScannedFiles(f, {".html", ".htm", ".js", ".mjs", ".css"}) } }
  IN  SelectSeq(sorted(asset_names), LAMBDA name : AssetIsMissing(f, name))

\* https://framerusercontent\.com/sites/<site_id>/(searchIndex-[^"'>]+\.json)
index_pattern(site_id, t) ==
  IF t.k = "site_url" /\ t.id = site_id /\ IsIndexName(t.name) THEN {t.name} ELSE {}

find_missing_search_indexes(f, site_id) ==
  LET indexes ==
        UNION { index_pattern(site_id, t) :
                t \in UNION { f.files[p] :
                              p \in ScannedFiles(f, {".html", ".htm", ".js", ".mjs"}) } }
      site_dir == SiteDir(site_id)
  IN  SelectSeq(sorted(indexes), LAMBDA name : ~exists(f, site_dir \o <<name>>))

(***************************************************************************)
(* download_file.  urlretrieve's outcome is the environment's choice:      *)
(*   ok     the body is written to dest                                    *)
(*   http   HTTPError, raised before dest is opened                        *)
(*   url    URLError, raised before dest is opened                         *)
(*   short  ContentTooShortError (a URLError), dest holds a truncated body *)
(*   other  any other exception                                            *)
(* The result is [raised, ok, fs]: raised when an exception leaves         *)
(* download_file, ok when the [OK ] line is logged.                        *)
(***************************************************************************)
Outcomes == {"ok", "http", "url", "short", "other"}

EmptyText == {}

download_file(f, dest, outcome, body) ==
  LET m == mkdir(f, Parent(dest))
      w == Walk(m.fs, <<>>, dest)
      writable == w.ok /\ ~IsDir(m.fs, w.path)
  IN  IF ~m.ok THEN [raised |-> TRUE, ok |-> FALSE, fs |-> m.fs]
      ELSE IF outcome = "ok" /\ writable
           THEN [raised |-> FALSE, ok |-> TRUE, fs |-> WriteFile(m.fs, w.path, body)]
      ELSE IF outcome = "short" /\ writable
           THEN [raised |-> FALSE, ok |-> FALSE, fs |-> WriteFile(m.fs, w.path, EmptyText)]
      ELSE [raised |-> FALSE, ok |-> FALSE, fs |-> m.fs]

\* a destination that leaves the identifier out
SiteDestFlat(site_id, f) == <<"sites">> \o Parts(f)

\* dest = root / "sites" / site_id / f
SiteDest(site_id, f) == SiteDir(site_id) \o Parts(f)

\* url = f"{FRAMER_CDN}/sites/{site_id}/{f}"
SiteUrl(site_id, f) == <<FRAMER_CDN, "sites", site_id, f>>

\* url = f"{FRAMER_CDN}/assets/{name}"
AssetUrl(name) == <<FRAMER_CDN, "assets", name>>

\* dest = root / "assets" / name
AssetDest(name) == <<"assets">> \o Parts(name)

\* where the kernel puts a file opened at dest
Resolved(f, dest) == Walk(f, <<>>, dest).path

(***************************************************************************)
(* Initial trees: a base tree plus at most MaxExtra additions.             *)
(***************************************************************************)
SiteUrlPage == Tok("site_url", "abc123", "page.html")
SiteUrlIndex == Tok("site_url", "abc123", "searchIndex-en.json")
SiteUrlIndexXyz == Tok("site_url", "xyz789", "searchIndex-en.json")
LocalIndex == Tok("local_index", "abc123", "searchIndex-en.json")
FromUtil == Tok("from_import", "", "util.mjs")
BareUtil == Tok("bare_import", "", "util.mjs")
DynDep == Tok("dyn_import", "", "dep.mjs")
DynEvil == Tok("dyn_import", "", "../../evil.mjs")
AssetLogo == Tok("asset_url", "", "logo123.png")
AssetBin == Tok("asset_url", "", "data.bin")

IndexHtml == <<"index.html">>
StyleCss == <<"style.css">>
PageMjs == <<"sites", "abc123", "page.mjs">>
PageHtml == <<"sites", "abc123", "page.html">>
UtilMjs == <<"sites", "abc123", "util.mjs">>

Prefixes(p) == { SubSeq(p, 1, n) : n \in 1..(Len(p) - 1) }

\* the tree holding the regular files of `texts` (path -> text) and the
\* directories `more` besides those the files lie in
Tree(texts, more) ==
  [files |-> texts,
   dirs |-> more \cup UNION { Prefixes(p) : p \in DOMAIN texts }]

BaseTrees ==
  { \* an empty page
    Tree(IndexHtml :> EmptyText, {}),
    \* the module scenario as written: the importing file is page.html
    Tree(IndexHtml :> {SiteUrlPage} @@ PageHtml :> {FromUtil}, {}),
    \* the module scenario with the importing file a module
    Tree(IndexHtml :> {SiteUrlPage} @@ PageMjs :> {FromUtil}, {}),
    \* two identifiers, one of them without a local directory
    Tree(IndexHtml :> {SiteUrlPage, SiteUrlIndexXyz} @@ PageMjs :> {FromUtil}, {}) }

\* an addition puts a reference into a text file, or an empty regular file,
\* or an empty directory, at `path`
Ref(p, t) == [op |-> "ref", path |-> p, tok |-> t]

AddRefs ==
  { Ref(IndexHtml, LocalIndex), Ref(IndexHtml, SiteUrlIndex),
    Ref(PageMjs, DynEvil), Ref(PageMjs, BareUtil),
    Ref(StyleCss, AssetLogo), Ref(StyleCss, AssetBin) }

AddFiles ==
  { [op |-> "file", path |-> p, tok |-> Tok("", "", "")] :
    p \in { <<"assets", "logo123.png">>, <<"images", "logo123.png">>,
            <<"assets">>, <<"sites", "xyz789">> } }

AddDirs ==
  { [op |-> "dir", path |-> p, tok |-> Tok("", "", "")] : p \in { <<"sites", "xyz789">> } }

Additions == AddRefs \cup AddFiles \cup AddDirs

Add(f, a) ==
  CASE a.op = "ref" ->
         Tree((a.path :> ((IF IsFile(f, a.path) THEN f.files[a.path] ELSE {}) \cup {a.tok}))
              @@ f.files, f.dirs)
    [] a.op = "file" ->
         Tree((a.path :> (IF IsFile(f, a.path) THEN f.files[a.path] ELSE EmptyText))
              @@ f.files, f.dirs)
    [] a.op = "dir" -> Tree(f.files, f.dirs \cup {a.path})

RECURSIVE AddAll(_, _)
AddAll(f, as) ==
  IF as = {} THEN f
  ELSE LET a == CHOOSE x \in as : TRUE IN AddAll(Add(f, a), as \ {a})

\* no path is both a regular file and a directory
WellFormed(f) == DOMAIN f.files \cap f.dirs = {}

\* the subsets of S of at most n elements
RECURSIVE SubsetsUpTo(_, _)
SubsetsUpTo(S, n) ==
  IF n = 0 THEN {{}}
  ELSE LET smaller == SubsetsUpTo(S, n - 1)
       IN  smaller \cup { x \cup {a} : x \in smaller, a \in S }

InitialTrees ==
  { t \in { AddAll(b, as) : b \in BaseTrees, as \in SubsetsUpTo(Additions, MaxExtra) } :
    WellFormed(t) }

\* what a successful download may write: nothing, or a module text with
\* references of its own
RichBody == {DynDep, AssetLogo}
Bodies == {EmptyText, RichBody}

(***************************************************************************)
(* main, one step per detection call and per download.                     *)
(*   rep   what the current run reported and did                           *)
(*   hist  the rep of the run before it on this root, if any               *)
(*   run   the number of the current run                                   *)
(***************************************************************************)
NewRep(d, f) ==
  [dry |-> d, start |-> f, ids |-> {}, mjs |-> <<>>, idx |-> <<>>,
   assets |-> <<>>, events |-> <<>>, warned |-> {}, all_ok |-> TRUE]

\* a detection call
Detect(op, id) ==
  [op |-> op, id |-> id, name |-> "", url |-> <<>>, dest |-> <<>>, raised |-> FALSE]

\* a call of download_file: dest is where the kernel resolves the destination
Get(op, id, name, url, dest, r) ==
  [op |-> op, id |-> id, name |-> name, url |-> url,
   dest |-> Resolved(r.fs, dest), raised |-> r.raised]

Init ==
  /\ root_ok \in BOOLEAN
  /\ fs \in IF root_ok THEN InitialTrees ELSE {EmptyFs}
  /\ pc = "start"
  /\ dry_run = FALSE
  /\ site_ids = {}
  /\ queue = <<>>
  /\ missing_mjs = <<>>
  /\ missing_indexes = <<>>
  /\ missing_assets = <<>>
  /\ k = 1
  /\ rep = NewRep(FALSE, fs)
  /\ hist = <<>>
  /\ run = 1

\* a run that downloads whatever the flag says
RemediateAlways == TRUE

\* if not args.dry_run:
Remediate == ~dry_run

\* args = parser.parse_args(); the root check
ParseArgs ==
  /\ pc = "start"
  /\ \E d \in BOOLEAN :
       /\ dry_run' = d
       /\ rep' = NewRep(d, fs)
  /\ pc' = IF root_ok THEN "ids" ELSE "fatal"
  /\ UNCHANGED <<fs, root_ok, site_ids, queue, missing_mjs, missing_indexes,
                 missing_assets, k, hist, run>>

\* 1. site_ids = find_site_ids(root)
FindSiteIds ==
  /\ pc = "ids"
  /\ site_ids' = find_site_ids(fs)
  /\ queue' = sorted(site_ids')
  /\ pc' = IF queue' = <<>> THEN "assets" ELSE "mjs"
  /\ rep' = [rep EXCEPT !.ids = site_ids']
  /\ UNCHANGED <<fs, root_ok, dry_run, missing_mjs, missing_indexes,
                 missing_assets, k, hist, run>>

\* 2. missing_mjs = find_missing_mjs_for_site(root, site_id)
DetectMjs ==
  /\ pc = "mjs"
  /\ LET site_id == Head(queue) IN
       /\ missing_mjs' = find_missing_mjs_for_site(fs, site_id)
       /\ rep' = [rep EXCEPT
                    !.mjs = (site_id :> missing_mjs') @@ @,
                    !.warned = IF WarnsNoSiteDir(fs, site_id) THEN @ \cup {site_id} ELSE @,
                    !.events = Append(@, Detect("mjs", site_id))]
  /\ pc' = "idx"
  /\ UNCHANGED <<fs, root_ok, dry_run, site_ids, queue, missing_indexes,
                 missing_assets, k, hist, run>>

\* the end of the body of `for site_id in sorted(site_ids)`
NextSite ==
  /\ queue' = Tail(queue)
  /\ pc' = IF Tail(queue) = <<>> THEN "assets" ELSE "mjs"

\* missing_indexes = find_missing_search_indexes(root, site_id); if not args.dry_run
DetectIndexes ==
  /\ pc = "idx"
  /\ LET site_id == Head(queue) IN
       /\ missing_indexes' = find_missing_search_indexes(fs, site_id)
       /\ rep' = [rep EXCEPT
                    !.idx = (site_id :> missing_indexes') @@ @,
                    !.events = Append(@, Detect("idx", site_id))]
  /\ k' = 1
  /\ IF Remediate /\ missing_mjs # <<>> THEN pc' = "dl_mjs" /\ UNCHANGED queue
     ELSE IF Remediate /\ missing_indexes' # <<>> THEN pc' = "dl_idx" /\ UNCHANGED queue
     ELSE NextSite
  /\ UNCHANGED <<fs, root_ok, dry_run, site_ids, missing_mjs, missing_assets, hist, run>>

\* for f in missing_mjs: download_file(url, dest)
DownloadMjs ==
  /\ pc = "dl_mjs"
  /\ \E outcome \in Outcomes, body \in Bodies :
       LET site_id == Head(queue)
           f == missing_mjs[k]
           dest == SiteDest(site_id, f)
           r == download_file(fs, dest, outcome, body)
       IN  /\ fs' = r.fs
           /\ rep' = [rep EXCEPT
                        !.events = Append(@, Get("get_mjs", site_id, f, SiteUrl(site_id, f), dest, r)),
                        !.all_ok = @ /\ r.ok]
           /\ IF r.raised THEN pc' = "crashed" /\ UNCHANGED <<k, queue>>
              ELSE IF k < Len(missing_mjs) THEN pc' = "dl_mjs" /\ k' = k + 1 /\ UNCHANGED queue
              ELSE IF missing_indexes # <<>> THEN pc' = "dl_idx" /\ k' = 1 /\ UNCHANGED queue
              ELSE k' = 1 /\ NextSite
  /\ UNCHANGED <<root_ok, dry_run, site_ids, missing_mjs, missing_indexes,
                 missing_assets, hist, run>>

\* for f in missing_indexes: download_file(url, dest)
DownloadIndex ==
  /\ pc = "dl_idx"
  /\ \E outcome \in Outcomes, body \in Bodies :
       LET site_id == Head(queue)
           f == missing_indexes[k]
           dest == SiteDest(site_id, f)
           r == download_file(fs, dest, outcome, body)
       IN  /\ fs' = r.fs
           /\ rep' = [rep EXCEPT
                        !.events = Append(@, Get("get_idx", site_id, f, SiteUrl(site_id, f), dest, r)),
                        !.all_ok = @ /\ r.ok]
           /\ IF r.raised THEN pc' = "crashed" /\ UNCHANGED <<k, queue>>
              ELSE IF k < Len(missing_indexes)
                   THEN pc' = "dl_idx" /\ k' = k + 1 /\ UNCHANGED queue
              ELSE k' = 1 /\ NextSite
  /\ UNCHANGED <<root_ok, dry_run, site_ids, missing_mjs, missing_indexes,
                 missing_assets, hist, run>>

\* 3. missing_assets = find_missing_assets(root); if not args.dry_run
DetectAssets ==
  /\ pc = "assets"
  /\ missing_assets' = find_missing_assets(fs)
  /\ rep' = [rep EXCEPT !.assets = missing_assets',
                        !.events = Append(@, Detect("assets", ""))]
  /\ k' = 1
  /\ pc' = IF Remediate /\ missing_assets' # <<>> THEN "dl_assets" ELSE "done"
  /\ UNCHANGED <<fs, root_ok, dry_run, site_ids, queue, missing_mjs,
                 missing_indexes, hist, run>>

\* for name in missing_assets: download_file(url, dest)
DownloadAsset ==
  /\ pc = "dl_assets"
  /\ \E outcome \in Outcomes, body \in Bodies :
       LET name == missing_assets[k]
           dest == AssetDest(name)
           r == download_file(fs, dest, outcome, body)
       IN  /\ fs' = r.fs
           /\ rep' = [rep EXCEPT
                        !.events = Append(@, Get("get_asset", "", name, AssetUrl(name), dest, r)),
                        !.all_ok = @ /\ r.ok]
           /\ IF r.raised THEN pc' = "crashed" /\ UNCHANGED k
              ELSE IF k < Len(missing_assets) THEN pc' = "dl_assets" /\ k' = k + 1
              ELSE pc' = "done" /\ k' = 1
  /\ UNCHANGED <<root_ok, dry_run, site_ids, queue, missing_mjs, missing_indexes,
                 missing_assets, hist, run>>

\* the script is started again on the same root after a normal completion
Rerun ==
  /\ pc = "done"
  /\ run < MaxRuns
  /\ run' = run + 1
  /\ hist' = <<rep>>
  /\ pc' = "start"
  /\ site_ids' = {}
  /\ queue' = <<>>
  /\ missing_mjs' = <<>>
  /\ missing_indexes' = <<>>
  /\ missing_assets' = <<>>
  /\ k' = 1
  /\ UNCHANGED <<fs, root_ok, dry_run, rep>>

Next ==
  \/ ParseArgs
  \/ FindSiteIds
  \/ DetectMjs
  \/ DetectIndexes
  \/ DownloadMjs
  \/ DownloadIndex
  \/ DetectAssets
  \/ DownloadAsset
  \/ Rerun

Spec == Init /\ [][Next]_vars

\* the process's exit status: 0 after "Готово", 1 after sys.exit(1) or after
\* an exception that leaves main
ExitCode == CASE pc = "done" -> 0 [] pc \in {"fatal", "crashed"} -> 1 [] OTHER -> 2

(***************************************************************************)
(* Properties.                                                             *)
(***************************************************************************)
\* the run before the current one
Prev == hist[Len(hist)]

\* the items a run reported missing
Reported(r) ==
  UNION { { <<"mjs", id, n>> : n \in Range(r.mjs[id]) } : id \in DOMAIN r.mjs }
  \cup UNION { { <<"idx", id, n>> : n \in Range(r.idx[id]) } : id \in DOMAIN r.idx }
  \cup { <<"asset", "", n>> : n \in Range(r.assets) }

\* the detection results a run printed
Detection(r) == <<r.ids, r.mjs, r.idx, r.assets>>

\* the download_file calls of a run for one list, in call order
Gets(r, op, id) ==
  LET sel == SelectSeq(r.events, LAMBDA e : e.op = op /\ e.id = id)
  IN  [i \in 1..Len(sel) |-> sel[i].name]

HasEvent(r, op) == \E i \in 1..Len(r.events) : r.events[i].op = op

Terminated == pc \in {"done", "fatal", "crashed"}

\* the earlier run downloaded, with success, every item it reported missing,
\* and the current run is over
AfterCompleteRemediation ==
  /\ hist # <<>>
  /\ ~Prev.dry
  /\ Prev.all_ok
  /\ pc = "done"

\* C1 as stated: after a non-dry-run pass that downloaded every item it
\* reported missing, a second run on the same root reports no missing module,
\* no missing search index and no missing asset.
C1_SecondRunReportsNothing ==
  AfterCompleteRemediation => Reported(rep) = {}

\* C1 amended: after a non-dry-run pass that downloaded every item it reported
\* missing, a second run on the same root reports none of the items the first
\* pass reported (it may report items that only the downloaded files refer to).
C1_SecondRunReportsNoneAgain ==
  AfterCompleteRemediation => Reported(rep) \cap Reported(Prev) = {}

C1_Witness ==
  /\ AfterCompleteRemediation
  /\ Reported(Prev) # {}
  /\ Reported(rep) # {}

\* C2: in a --dry-run run download_file is never called and the tree under
\* root (files, directories, contents) stays what it was when the run began,
\* however many items are reported missing.
C2_DryRunFrame ==
  rep.dry =>
    /\ fs = rep.start
    /\ \A i \in 1..Len(rep.events) : rep.events[i].op \in {"mjs", "idx", "assets"}

C2_Witness ==
  /\ rep.dry
  /\ pc = "done"
  /\ Cardinality(Reported(rep)) >= 2

\* C3: a --dry-run run and a non-dry-run run started from the same tree report
\* the same identifier set, the same missing-module and missing-index lists
\* for every identifier and the same missing-asset list.
C3_DryRunReportsAsRealRun ==
  (/\ hist # <<>>
   /\ Prev.dry
   /\ ~rep.dry
   /\ Prev.start = rep.start
   /\ pc = "done")
  => Detection(rep) = Detection(Prev)

\* C4: with an existing root, whatever the outcomes of the downloads, the run
\* never ends with exit code 1 (that code is kept for a root that is not a
\* directory), and a completed non-dry-run run has made exactly one download
\* attempt for every item it reported, none skipped and none repeated.
C4_DownloadFailuresNeverAbort ==
  /\ ExitCode = 1 => ~root_ok
  /\ (pc = "done" /\ ~rep.dry) =>
       /\ \A id \in rep.ids :
            /\ Gets(rep, "get_mjs", id) = rep.mjs[id]
            /\ Gets(rep, "get_idx", id) = rep.idx[id]
       /\ Gets(rep, "get_asset", "") = rep.assets

\* index.html refers to https://framerusercontent.com/sites/abc123/page.html
SiteReferenced(f) ==
  IsFile(f, IndexHtml) /\ SiteUrlPage \in f.files[IndexHtml]

\* the scenario as stated: sites/abc123/page.html imports ./util.mjs, absent
ScenarioHtml(f) ==
  /\ SiteReferenced(f)
  /\ IsFile(f, PageHtml) /\ FromUtil \in f.files[PageHtml]
  /\ ~exists(f, UtilMjs)

\* the scenario with a module as the importing file: sites/abc123/page.mjs,
\* the only module there, holds the one import from "./util.mjs", absent
ScenarioMjs(f) ==
  /\ SiteReferenced(f)
  /\ GlobMjs(f, SiteDir("abc123")) = {PageMjs}
  /\ f.files[PageMjs] = {FromUtil}
  /\ ~exists(f, UtilMjs)

\* module detection for abc123 has just returned
DetectedMjsOfAbc == pc = "idx" /\ Head(queue) = "abc123"

IndexReferences(f, id) ==
  { t.name : t \in { u \in UNION { f.files[p] :
                                   p \in ScannedFiles(f, {".html", ".htm", ".js", ".mjs"}) } :
                     u.k \in {"site_url", "local_index"} /\ u.id = id /\ IsIndexName(u.name) } }

\* C6: for an identifier found by find_site_ids, search-index detection lists
\* every referenced index file (local relative reference or content-origin
\* URL) that is absent from sites/<id>/, and lists no file present there.
C6_EveryIndexReferenceCovered ==
  [][ pc = "idx" =>
        LET id == Head(queue) IN
          /\ \A n \in IndexReferences(fs, id) :
               ~exists(fs, SiteDir(id) \o <<n>>) => n \in Range(missing_indexes')
          /\ \A n \in Range(missing_indexes') : ~exists(fs, SiteDir(id) \o <<n>>) ]_vars

\* the asset names referenced by a content-origin asset URL in a file of the
\* scanned kinds
AssetReferences(f) ==
  { t.name : t \in { u \in UNION { f.files[p] :
                                   p \in ScannedFiles(f, {".html", ".htm", ".js", ".mjs", ".css"}) } :
                     u.k = "asset_url" /\ IsAssetName(u.name) } }

StrictlyAscending(s) == \A i, j \in 1..Len(s) : i < j => Less(s[i], s[j])

C8_MissingSiteDirContinues ==
  \A id \in rep.warned :
    /\ rep.mjs[id] = <<>>
    /\ Terminated =>
         /\ \A other \in rep.ids : other \in DOMAIN rep.mjs /\ other \in DOMAIN rep.idx
         /\ HasEvent(rep, "assets")

\* the order main runs its steps in: identifiers ascending; within one
\* identifier module detection, index detection, module downloads, index
\* downloads, each list ascending; the asset step after every identifier
StepRank(op) ==
  CASE op = "mjs" -> 1 [] op = "idx" -> 2 [] op = "get_mjs" -> 3 [] op = "get_idx" -> 4
    [] op = "assets" -> 5 [] op = "get_asset" -> 6

IsDownload(op) == op \in {"get_mjs", "get_idx", "get_asset"}

Before(a, b) ==
  IF StepRank(a.op) <= 4 /\ StepRank(b.op) <= 4 /\ a.id # b.id THEN Less(a.id, b.id)
  ELSE IF a.op # b.op THEN StepRank(a.op) < StepRank(b.op)
  ELSE IsDownload(a.op) /\ Less(a.name, b.name)

\* C9: in a non-dry-run run identifiers are processed in sorted order; for each
\* identifier its module detection, index detection, module downloads and
\* index downloads (each list in sorted order, one at a time) happen before
\* anything of the next identifier; asset detection and asset downloads happen
\* only after every identifier has been remediated.
C9_EventOrdering ==
  ~rep.dry =>
    /\ \A i, j \in 1..Len(rep.events) : i < j => Before(rep.events[i], rep.events[j])
    /\ HasEvent(rep, "assets") =>
         \A id \in rep.ids :
           /\ id \in DOMAIN rep.mjs /\ id \in DOMAIN rep.idx
           /\ Gets(rep, "get_mjs", id) = rep.mjs[id]
           /\ Gets(rep, "get_idx", id) = rep.idx[id]

C9_Witness ==
  /\ ~rep.dry
  /\ pc = "done"
  /\ Cardinality(rep.ids) = 2
  /\ \E id \in rep.ids : Len(Gets(rep, "get_mjs", id)) = 2
  /\ \E id \in rep.ids : Len(Gets(rep, "get_idx", id)) = 1
  /\ Len(Gets(rep, "get_asset", "")) = 1

IsPrefix(d, p) == Len(d) < Len(p) /\ SubSeq(p, 1, Len(d)) = d

\* C10: every destination download_file writes, or creates the parent
\* directories of, lies inside sites/<id>/ of the identifier being remediated
\* or is assets/<filename>.
C10_WriteConfinement ==
  \A i \in 1..Len(rep.events) :
    LET e == rep.events[i] IN
      /\ (e.op \in {"get_mjs", "get_idx"} /\ ~e.raised) => IsPrefix(SiteDir(e.id), e.dest)
      /\ (e.op = "get_asset" /\ ~e.raised) => e.dest = <<"assets", e.name>>

====
